---- MODULE Spec2Model ----
(***************************************************************************)
(* Chunk streaming of Rust-Game: the background generator task and the     *)
(* RedrawRequested handler of lib/run.rs, the generator cache of           *)
(* lib/pipelines/load_chunks.rs, and the window planner the handler calls  *)
(* (state.world.load_chunks, described in spec.md 4.4 / 4.5).              *)
(***************************************************************************)
EXTENDS Integers, FiniteSets, Sequences, TLC

(* ------------------------------ bounds -------------------------------- *)
Radius == 1
MaxMoves == 2
ViewerPositions == {<<0, 0>>, <<-1, 0>>, <<70, 0>>}
PlanMaxRadius == 3
PlanPositions == {<<0, 0>>, <<31, 5>>, <<-1, -1>>, <<40, -70>>, <<32, 0>>, <<-33, 31>>}

\* anchors a snapshot is drawn from, and the largest snapshot, when load_chunks
\* is followed one device call at a time
ReadbackAnchors == {<<0, 0>>, <<32, 0>>, <<0, -32>>, <<-32, -96>>}
MaxBatch == 2

\* contexts that hold the query pipeline, and the anchors of the chunks they
\* query
RayCallers == {"first", "second"}
RayAnchors == {<<0, 0>>, <<32, 0>>}

\* coordinates handed to World::get_chunk, per axis
GetChunkXs == {-17, -16, -1, 0, 15, 16, 32}
GetChunkZs == {-96, -1, 0, 5}

(* -------------------------- program constants ------------------------- *)
ChunkEdge == 32

\* CHUNKSIZE of world/mod.rs
CHUNKSIZE == 16

\* let chunk_size = (32, 32).into() of run.rs, handed to ComputeWorldPipeline
chunk_size == <<32, 32>>

\* std::mem::size_of::<f32>() and size_of::<u32>()
SizeOfF32 == 4
SizeOfU32 == 4

\* the array lengths of RawBufferData
VertexDataLen == 34848
IndexDataLen == 24576

\* the scenario of the planner's test: radius 10, viewer at the origin
ScenarioRadius == 10
ScenarioOrigin == <<0, 0>>

VARIABLES
    position,               \* camera position (x, z) read by the frame
    radius,                 \* chunk radius r of the planner
    ResidentChunks,         \* consumer: key -> ingested geometry
    RequestedChunks,        \* consumer: state.world.requested_chunks
    raw_buffer_data,        \* consumer: state.world.raw_buffer_data
    world_chunks,           \* shared staging map (Mutex)
    requested_chunks,       \* shared requested snapshot (Mutex)
    temp_requested_chunks,  \* background: copy taken at the start of a tick
    compute_chunks,         \* background: world_compute.chunks
    bg_pc,                  \* background task position
    frame_pc,               \* RedrawRequested handler position
    failed,                 \* keys whose readback failed (at most one)
    drained,                \* keys the current frame drained from staging
    prior_resident,         \* resident keys before the current planner pass
    prior_requested,        \* requested keys before the current planner pass
    moves,                  \* number of times the viewer changed position
    chunks,                 \* World of world/mod.rs: chunk_key -> corner_coord
    get_chunk_position,     \* argument of the last World::get_chunk call
    x_coord,                \* get_chunk: corner on the x axis
    z_coord,                \* get_chunk: corner on the z axis
    chunk_key,              \* get_chunk: key of the corner ("" before a call)
    world_chunks_lock,      \* who holds the guard of the world_chunks Mutex
    requested_chunks_lock,  \* who holds the guard of the requested_chunks Mutex
    gen_pc,                 \* load_chunks: position in the body of its for loop
    todo,                   \* load_chunks: keys of anchor_coords not yet visited
    gen_key,                \* load_chunks: chunk_key of the current iteration
    new_chunks,             \* load_chunks: the map being assembled
    mesh,                   \* load_chunks: new_chunk.mesh, the device buffers
    vertex_staging_buffer,  \* load_chunks: mapping state and bytes
    index_staging_buffer,   \* load_chunks: mapping state and bytes
    vertex_data,            \* load_chunks: owned copy of the vertex bytes
    index_data,             \* load_chunks: owned copy of the index bytes
    submitted,              \* commands handed to queue.submit for this chunk
    signal,                 \* what the oneshot receiver will yield
    sizes,                  \* load_chunks: byte sizes of this chunk's buffers
    ray_pc,                 \* ray_intersect: position of each caller's call
    raw_buffer_arg,         \* ray_intersect: the raw_buffer_data of each call
    query_vertex_buffer,    \* RayIntersectPipeline: self.vertex_buffer
    query_index_buffer,     \* RayIntersectPipeline: self.index_buffer
    result_buffer,          \* RayIntersectPipeline: self.result_buffer
    staging_buffer,         \* RayIntersectPipeline: self.staging_buffer
    ray_signal,             \* ray_intersect: what its oneshot receiver will yield
    ray_returned,           \* ray_intersect: what each caller's last call returned
    tick_generated,         \* history: keys gen_chunk ran for in the last load_chunks
    entry_chunks,           \* history: self.chunks when load_chunks was entered
    generated_since_request, \* history: requested keys generated since their request
    pending_raw             \* history: raw_buffer_data when the frame took the staging lock

\* the World of world/mod.rs and the locals of its get_chunk
worldVars == <<chunks, get_chunk_position, x_coord, z_coord, chunk_key>>

\* the guards of the two Mutexes of run.rs: "free", "background" or "consumer"
mutexVars == <<world_chunks_lock, requested_chunks_lock>>

\* the locals of ComputeWorld::load_chunks
readbackVars == <<gen_pc, todo, gen_key, new_chunks, mesh, vertex_staging_buffer,
                  index_staging_buffer, vertex_data, index_data, submitted, signal,
                  sizes>>

\* the RayIntersectPipeline of ray_intersection.rs and the calls of ray_intersect
rayVars == <<ray_pc, raw_buffer_arg, query_vertex_buffer, query_index_buffer,
             result_buffer, staging_buffer, ray_signal, ray_returned>>

\* history of the generator, kept for the statements about duplicate work
historyVars == <<tick_generated, entry_chunks, generated_since_request, pending_raw>>

\* what the handlers of run.rs, taken as whole steps, leave as it is
nonStreamVars == <<worldVars, mutexVars, readbackVars, rayVars, historyVars>>

vars == <<position, radius, ResidentChunks, RequestedChunks, raw_buffer_data,
          world_chunks, requested_chunks, temp_requested_chunks,
          compute_chunks, bg_pc, frame_pc, failed, drained, prior_resident,
          prior_requested, moves, nonStreamVars>>

\* what the RedrawRequested handler owns, and what the background task owns
consumerVars == <<position, radius, ResidentChunks, RequestedChunks,
                  raw_buffer_data, frame_pc, drained, prior_resident,
                  prior_requested, moves>>

generatorVars == <<temp_requested_chunks, compute_chunks, bg_pc, failed>>

\* everything the streaming handlers of run.rs read or write
streamVars == <<consumerVars, generatorVars, world_chunks, requested_chunks>>

(* ------------------------------- maps --------------------------------- *)
EmptyMap == [k \in {} |-> {}]

\* HashMap::extend: entries of m2 are inserted into m1, overwriting
Extend(m1, m2) ==
    [k \in (DOMAIN m1) \cup (DOMAIN m2) |-> IF k \in DOMAIN m2 THEN m2[k] ELSE m1[k]]

(* ------------------------------- keys --------------------------------- *)
DigitChars == <<"0", "1", "2", "3", "4", "5", "6", "7", "8", "9">>

RECURSIVE NatToStr(_)
NatToStr(n) ==
    IF n < 10 THEN <<DigitChars[n + 1]>>
    ELSE NatToStr(n \div 10) \o <<DigitChars[(n % 10) + 1]>>

\* "{}" formatting of a signed integer
IntToStr(n) == IF n < 0 THEN <<"-">> \o NatToStr(-n) ELSE NatToStr(n)

\* key of a chunk corner: the two signed decimals joined by an underscore
key_of(anchor) == IntToStr(anchor[1]) \o <<"_">> \o IntToStr(anchor[2])

\* index of the first separator of a key, 0 when it has none
SepIndex(key, sep) ==
    IF \E i \in 1..Len(key) : key[i] = sep
    THEN CHOOSE i \in 1..Len(key) : key[i] = sep /\ \A j \in 1..(i - 1) : key[j] # sep
    ELSE 0

DigitValue(c) == CHOOSE d \in 0..9 : DigitChars[d + 1] = c

RECURSIVE StrToNat(_)
StrToNat(str) ==
    IF Len(str) = 1 THEN DigitValue(str[1])
    ELSE 10 * StrToNat(SubSeq(str, 1, Len(str) - 1)) + DigitValue(str[Len(str)])

\* a string is a signed decimal: an optional "-" and at least one digit
IsSignedDecimal(str) ==
    LET digits == IF str # <<>> /\ str[1] = "-" THEN Tail(str) ELSE str
    IN  /\ digits # <<>>
        /\ \A i \in 1..Len(digits) : \E d \in 1..10 : DigitChars[d] = digits[i]

\* the value of a signed decimal
StrToInt(str) == IF str[1] = "-" THEN -StrToNat(Tail(str)) ELSE StrToNat(str)

\* the coordinate pair of a key in the wire format "{x}_{z}"; the empty
\* sequence stands for MalformedKey
ParseKey(key) ==
    LET i == SepIndex(key, "_")
        xs == SubSeq(key, 1, i - 1)
        zs == SubSeq(key, i + 1, Len(key))
    IN  IF i = 0 \/ ~IsSignedDecimal(xs) \/ ~IsSignedDecimal(zs) THEN <<>>
        ELSE <<StrToInt(xs), StrToInt(zs)>>

(* ------------------------------ planner ------------------------------- *)
\* mutant: the division rounds toward zero instead of down
SnapAxis_TowardZero(p) ==
    IF p < 0 THEN -(((-p) \div ChunkEdge) * ChunkEdge) ELSE (p \div ChunkEdge) * ChunkEdge

\* floor-divide by the chunk edge and multiply back, per axis
SnapAxis(p) == (p \div ChunkEdge) * ChunkEdge

SnapCorner(pos) == <<SnapAxis(pos[1]), SnapAxis(pos[2])>>

\* mutant: the first square is written as a mixed product
DiskTest_MixedTerm(i, z, r) == i * z + z * z <= r * r + 1

\* mutant: the disk test without its slack term
DiskTest_NoSlack(i, z, r) == i * i + z * z <= r * r

\* the disk test with its +1 slack
DiskTest(i, z, r) == i * i + z * z <= r * r + 1

\* anchors of the offsets of the (2r+1) x (2r+1) ring that pass the disk test
WindowAnchors(pos, r) ==
    { <<SnapCorner(pos)[1] + i * ChunkEdge, SnapCorner(pos)[2] + z * ChunkEdge>> :
        <<i, z>> \in { o \in (-r..r) \X (-r..r) : DiskTest(o[1], o[2], r) } }

\* the window as (key, anchor) pairs, one per offset that passes the disk test
WindowEntries(pos, r) == { <<key_of(a), a>> : a \in WindowAnchors(pos, r) }

WindowKeys(pos, r) == { e[1] : e \in WindowEntries(pos, r) }

\* raw bytes of a drained entry become device-resident geometry
Ingest(raw) == [vertex_buffer |-> raw.vertex_data, index_buffer |-> raw.index_data]

\* mutant: every drained raw entry is ingested, whether or not its key is in
\* the window
NewResident_IngestAll(pos, r, resident, raw) ==
    [k \in { w \in WindowKeys(pos, r) : w \in DOMAIN resident } \cup DOMAIN raw |->
        IF k \in DOMAIN resident THEN resident[k] ELSE Ingest(raw[k])]

\* mutant: every chunk that was resident is carried forward, whether or not its
\* key is in the window
NewResident_KeepAll(pos, r, resident, raw) ==
    [k \in (DOMAIN resident) \cup ((DOMAIN raw) \cap WindowKeys(pos, r)) |->
        IF k \in DOMAIN resident THEN resident[k] ELSE Ingest(raw[k])]

\* the new resident set: window keys that were resident are carried forward,
\* window keys with a drained raw entry are ingested, everything else is left out
NewResident(pos, r, resident, raw) ==
    [k \in { w \in WindowKeys(pos, r) : w \in DOMAIN resident \/ w \in DOMAIN raw } |->
        IF k \in DOMAIN resident THEN resident[k] ELSE Ingest(raw[k])]

\* drained entries whose key is outside the window are stale and discarded
NewRaw(pos, r, raw) ==
    [k \in (DOMAIN raw) \cap WindowKeys(pos, r) |-> raw[k]]

\* mutant: a pending request is not dropped when its key becomes resident
NewRequested_KeepSatisfied(pos, r, resident, raw, requested) ==
    LET wanted == { e \in WindowEntries(pos, r) :
                        \/ e[1] \notin (DOMAIN resident) \cup (DOMAIN raw)
                        \/ e[1] \in DOMAIN requested }
    IN  [k \in { e[1] : e \in wanted } |->
            IF k \in DOMAIN requested THEN requested[k]
            ELSE (CHOOSE e \in wanted : e[1] = k)[2]]

\* mutant: a pending request is kept when its key leaves the window
NewRequested_KeepStale(pos, r, resident, raw, requested) ==
    LET wanted == { e \in WindowEntries(pos, r) :
                        e[1] \notin (DOMAIN resident) \cup (DOMAIN raw) }
    IN  [k \in { e[1] : e \in wanted } \cup
                ((DOMAIN requested) \ ((DOMAIN resident) \cup (DOMAIN raw))) |->
            IF k \in DOMAIN requested THEN requested[k]
            ELSE (CHOOSE e \in wanted : e[1] = k)[2]]

\* mutant: a window key that is already pending is dropped instead of kept
NewRequested_DropPending(pos, r, resident, raw, requested) ==
    LET wanted == { e \in WindowEntries(pos, r) :
                        e[1] \notin (DOMAIN resident) \cup (DOMAIN raw) \cup (DOMAIN requested) }
    IN  [k \in { e[1] : e \in wanted } |-> (CHOOSE e \in wanted : e[1] = k)[2]]

\* mutant: an entry that was already pending is anchored anew, at the corner
\* of the viewer's chunk
NewRequested_Reanchored(pos, r, resident, raw, requested) ==
    LET wanted == { e \in WindowEntries(pos, r) :
                        e[1] \notin (DOMAIN resident) \cup (DOMAIN raw) }
    IN  [k \in { e[1] : e \in wanted } |->
            IF k \in DOMAIN requested THEN SnapCorner(pos)
            ELSE (CHOOSE e \in wanted : e[1] = k)[2]]

\* the new requested map: one entry per window key that is neither carried
\* forward nor ingested by the pass; an entry that was already pending keeps
\* its anchor
NewRequested(pos, r, resident, raw, requested) ==
    LET wanted == { e \in WindowEntries(pos, r) :
                        e[1] \notin (DOMAIN resident) \cup (DOMAIN raw) }
    IN  [k \in { e[1] : e \in wanted } |->
            IF k \in DOMAIN requested THEN requested[k]
            ELSE (CHOOSE e \in wanted : e[1] = k)[2]]

(* ----------------------------- generator ------------------------------ *)
\* bytes read back for the chunk generated at an anchor
GenChunk(anchor) == [vertex_data |-> <<"vertices", anchor>>, index_data |-> <<"indices", anchor>>]

\* keys of the snapshot that the generator cache lacks
Missing(cache, anchor_coords) == (DOMAIN anchor_coords) \ (DOMAIN cache)

\* mutant: the chunk is generated at the anchor with its coordinates swapped
LoadedChunks_SwappedAnchor(cache, anchor_coords) ==
    [k \in DOMAIN anchor_coords |->
        IF k \in DOMAIN cache THEN cache[k]
        ELSE GenChunk(<<anchor_coords[k][2], anchor_coords[k][1]>>)]

\* mutant: a generated chunk is not inserted into new_chunks
LoadedChunks_CarriedOnly(cache, anchor_coords) ==
    [k \in (DOMAIN anchor_coords) \cap (DOMAIN cache) |-> cache[k]]

\* ComputeWorld::load_chunks when every readback succeeds
LoadedChunks(cache, anchor_coords) ==
    [k \in DOMAIN anchor_coords |->
        IF k \in DOMAIN cache THEN cache[k] ELSE GenChunk(anchor_coords[k])]

(* ------------------------ World of world/mod.rs ----------------------- *)
\* an f32 holding a whole number: a sign bit and a magnitude, so that -0.0 and
\* 0.0 are different values
F32(n) == [neg |-> n < 0, mag |-> IF n < 0 THEN -n ELSE n]

NegZero == [neg |-> TRUE, mag |-> 0]

\* the integer a whole f32 stands for
F32Value(f) == IF f.neg THEN -f.mag ELSE f.mag

\* f32 == f32: the two zeros compare equal
F32Eq(f, g) == F32Value(f) = F32Value(g)

\* (p / CHUNKSIZE).trunc() * CHUNKSIZE: the quotient is rounded toward zero and
\* keeps the sign of p
TruncToChunk(p) == [neg |-> p.neg, mag |-> (p.mag \div CHUNKSIZE) * CHUNKSIZE]

\* mutant: the corner is formatted as computed, without the test for -0.0
NormalizeZero_Skipped(c) == c

\* if c == -0.0 { c = 0.0 }
NormalizeZero(c) == IF F32Eq(c, NegZero) THEN F32(0) ELSE c

\* "{}" formatting of a whole f32: the sign, then the digits
F32ToStr(f) == IF f.neg THEN <<"-">> \o NatToStr(f.mag) ELSE NatToStr(f.mag)

\* format!("{x_coord},{z_coord}")
GetChunkKey(x, z) == F32ToStr(x) \o <<",">> \o F32ToStr(z)

\* World::new()
WorldNew ==
    /\ chunks = EmptyMap
    /\ get_chunk_position = <<F32(0), F32(0)>>
    /\ x_coord = F32(0)
    /\ z_coord = F32(0)
    /\ chunk_key = <<>>

\* positions handed to get_chunk; -0.0 is a position too
GetChunkPositions ==
    ({ F32(x) : x \in GetChunkXs } \cup {NegZero}) \X
    ({ F32(z) : z \in GetChunkZs } \cup {NegZero})

\* World::get_chunk(position)
get_chunk(pos) ==
    LET x == NormalizeZero(TruncToChunk(pos[1]))
        z == NormalizeZero(TruncToChunk(pos[2]))
        key == GetChunkKey(x, z)
    IN  /\ get_chunk_position' = pos
        /\ x_coord' = x
        /\ z_coord' = z
        /\ chunk_key' = key
        /\ chunks' = IF key \in DOMAIN chunks THEN chunks
                     ELSE Extend(chunks, [k \in {key} |-> <<x, z>>])
        /\ UNCHANGED <<streamVars, mutexVars, readbackVars, rayVars, historyVars>>

\* gen_chunk: num_vertices, num_elements and the sizes of the two mesh buffers
GenNumVertices == (chunk_size[1] + 1) * (chunk_size[2] + 1)
GenNumElements == chunk_size[1] * chunk_size[2] * 6
GenVertexBufferSize == GenNumVertices * 8 * SizeOfF32
GenIndexBufferSize == GenNumElements * SizeOfU32

\* the divisor 64.0 of gen_chunk's dispatch: invocations per workgroup
WorkgroupInvocations == 64

\* mutant: the quotient is cast to an integer without ceil()
DispatchWorkgroupsX_Truncated == GenNumVertices \div WorkgroupInvocations

\* ((num_vertices as f32) / 64.0).ceil() as u32: both operands and the quotient
\* are exact in f32, so this is the integer ceiling of the division
DispatchWorkgroupsX ==
    IF GenNumVertices % WorkgroupInvocations = 0
        THEN GenNumVertices \div WorkgroupInvocations
        ELSE GenNumVertices \div WorkgroupInvocations + 1

\* load_chunks: num_vertices, num_indices, and the size of the two staging
\* buffers, which is also the length of the two copies
num_vertices == (32 + 1) * (32 + 1)
num_indices == 32 * 32

\* mutant: the vertex staging buffer has room for the positions only
VertexStagingSize_PositionsOnly == num_vertices * 3 * SizeOfF32

VertexStagingSize == num_vertices * 8 * SizeOfF32
IndexStagingSize == num_indices * 6 * SizeOfU32

\* no chunk is being read back: there are no buffers
NoSizes == [mesh_vertex_buffer |-> 0, mesh_index_buffer |-> 0, num_elements |-> 0,
            vertex_staging_buffer |-> 0, index_staging_buffer |-> 0,
            vertex_copy |-> 0, index_copy |-> 0, vertex_data |-> 0, index_data |-> 0,
            workgroups |-> <<0, 0, 0>>]

\* a staging buffer as created: not mapped, nothing copied into it
NewStagingBuffer == [mapping |-> "unmapped", bytes |-> <<>>]

\* [0; 34848], [0; 24576]: an owned array before the bytes are copied in
Zeroed == <<"zeros">>

\* load_chunks is not running
ReadbackIdle ==
    /\ gen_pc = "idle"
    /\ todo = {}
    /\ gen_key = <<>>
    /\ new_chunks = EmptyMap
    /\ mesh = <<>>
    /\ vertex_staging_buffer = NewStagingBuffer
    /\ index_staging_buffer = NewStagingBuffer
    /\ vertex_data = Zeroed
    /\ index_data = Zeroed
    /\ submitted = <<>>
    /\ signal = "none"
    /\ sizes = NoSizes

\* what the compute pass of ray_intersect.wgsl leaves in the result buffer: a
\* scalar decided by the vertex and index bytes it reads
RayScalar(vertices, indices) == <<"distance", vertices, indices>>

\* RayIntersectPipeline::new: the four buffers are created, zero-filled and
\* unmapped; no call of ray_intersect has been made
RayIntersectPipelineNew ==
    /\ ray_pc = [c \in RayCallers |-> "idle"]
    /\ raw_buffer_arg = [c \in RayCallers |-> <<>>]
    /\ query_vertex_buffer = Zeroed
    /\ query_index_buffer = Zeroed
    /\ result_buffer = Zeroed
    /\ staging_buffer = [mapping |-> "unmapped", bytes |-> Zeroed]
    /\ ray_signal = "none"
    /\ ray_returned = [c \in RayCallers |-> <<>>]

\* nothing has been generated and nothing requested
HistoryNew ==
    /\ tick_generated = {}
    /\ entry_chunks = EmptyMap
    /\ generated_since_request = {}
    /\ pending_raw = EmptyMap

\* Mutex::new: nobody holds a guard
MutexNew ==
    /\ world_chunks_lock = "free"
    /\ requested_chunks_lock = "free"

(* ------------------------------- Init --------------------------------- *)
Init ==
    /\ position \in ViewerPositions
    /\ radius = Radius
    /\ moves = 0
    /\ ResidentChunks = EmptyMap
    /\ RequestedChunks = EmptyMap
    /\ raw_buffer_data = EmptyMap
    /\ world_chunks = EmptyMap
    /\ requested_chunks = EmptyMap
    /\ temp_requested_chunks = EmptyMap
    /\ compute_chunks = EmptyMap
    /\ bg_pc = "sleep"
    /\ frame_pc = "idle"
    /\ failed = {}
    /\ drained = {}
    /\ prior_resident = {}
    /\ prior_requested = {}
    /\ WorldNew
    /\ MutexNew
    /\ ReadbackIdle
    /\ RayIntersectPipelineNew
    /\ HistoryNew

(* ------------------------- background task ---------------------------- *)
\* start of a tick: copy the shared requested map under its mutex
TickSnapshot ==
    /\ bg_pc = "sleep"
    /\ temp_requested_chunks' = requested_chunks
    /\ bg_pc' = "generate"
    /\ UNCHANGED <<consumerVars, world_chunks, requested_chunks, compute_chunks, failed>>
    /\ UNCHANGED nonStreamVars

\* world_compute.load_chunks(...) returns: every readback succeeded
LoadChunksOk ==
    /\ bg_pc = "generate"
    /\ compute_chunks' = LoadedChunks(compute_chunks, temp_requested_chunks)
    /\ bg_pc' = "publish"
    /\ UNCHANGED <<consumerVars, world_chunks, requested_chunks, temp_requested_chunks, failed>>
    /\ UNCHANGED nonStreamVars

\* a vertex or index readback of a chunk being generated fails: panic! ends the
\* task and drops world_compute
LoadChunksPanic ==
    /\ bg_pc = "generate"
    /\ \E k \in Missing(compute_chunks, temp_requested_chunks) :
          failed' = {k}
    /\ compute_chunks' = EmptyMap
    /\ bg_pc' = "panicked"
    /\ UNCHANGED <<consumerVars, world_chunks, requested_chunks, temp_requested_chunks>>
    /\ UNCHANGED nonStreamVars

\* mutant: the publish assigns the staging map instead of extending it
TickPublish_Replace ==
    /\ bg_pc = "publish"
    /\ world_chunks' = compute_chunks
    /\ bg_pc' = "sleep"
    /\ UNCHANGED <<consumerVars, requested_chunks, temp_requested_chunks, compute_chunks, failed>>
    /\ UNCHANGED nonStreamVars

\* x.extend(world_compute.chunks.clone()) under the staging mutex
TickPublish ==
    /\ bg_pc = "publish"
    /\ world_chunks' = Extend(world_chunks, compute_chunks)
    /\ bg_pc' = "sleep"
    /\ UNCHANGED <<consumerVars, requested_chunks, temp_requested_chunks, compute_chunks, failed>>
    /\ UNCHANGED nonStreamVars

(* --------------------------- consumer frame --------------------------- *)
\* mutant: the staging map is cleared without moving its entries
FrameDrain_Lost ==
    /\ frame_pc = "idle"
    /\ IF DOMAIN world_chunks # {}
          THEN /\ raw_buffer_data' = EmptyMap
               /\ world_chunks' = EmptyMap
          ELSE UNCHANGED <<raw_buffer_data, world_chunks>>
    /\ drained' = DOMAIN world_chunks
    /\ frame_pc' = "drained"
    /\ UNCHANGED <<generatorVars, position, radius, ResidentChunks, RequestedChunks,
                   requested_chunks, prior_resident, prior_requested, moves>>
    /\ UNCHANGED nonStreamVars

\* drain of the staging map under its mutex
FrameDrain ==
    /\ frame_pc = "idle"
    /\ IF DOMAIN world_chunks # {}
          THEN /\ raw_buffer_data' = world_chunks
               /\ world_chunks' = EmptyMap
          ELSE UNCHANGED <<raw_buffer_data, world_chunks>>
    /\ drained' = DOMAIN world_chunks
    /\ frame_pc' = "drained"
    /\ UNCHANGED <<generatorVars, position, radius, ResidentChunks, RequestedChunks,
                   requested_chunks, prior_resident, prior_requested, moves>>
    /\ UNCHANGED nonStreamVars

\* state.world.load_chunks(camera position): ingestion and window recompute
PlannerPass ==
    /\ ResidentChunks' = NewResident(position, radius, ResidentChunks, raw_buffer_data)
    /\ RequestedChunks' = NewRequested(position, radius, ResidentChunks,
                                       raw_buffer_data, RequestedChunks)
    /\ raw_buffer_data' = NewRaw(position, radius, raw_buffer_data)

FramePlan ==
    /\ frame_pc = "drained"
    /\ PlannerPass
    /\ prior_resident' = DOMAIN ResidentChunks
    /\ prior_requested' = DOMAIN RequestedChunks
    /\ frame_pc' = "planned"
    /\ UNCHANGED <<generatorVars, position, radius, world_chunks,
                   requested_chunks, drained, moves>>
    /\ UNCHANGED nonStreamVars

\* mutant: the requests are merged into the shared map instead of replacing it
FramePublish_Merge ==
    /\ frame_pc = "planned"
    /\ requested_chunks' = Extend(requested_chunks, RequestedChunks)
    /\ frame_pc' = "published"
    /\ UNCHANGED <<generatorVars, position, radius, ResidentChunks, RequestedChunks,
                   raw_buffer_data, world_chunks, drained, prior_resident,
                   prior_requested, moves>>
    /\ UNCHANGED nonStreamVars

\* *x = state.world.requested_chunks.clone() under the requested mutex
FramePublish ==
    /\ frame_pc = "planned"
    /\ requested_chunks' = RequestedChunks
    /\ frame_pc' = "published"
    /\ UNCHANGED <<generatorVars, position, radius, ResidentChunks, RequestedChunks,
                   raw_buffer_data, world_chunks, drained, prior_resident,
                   prior_requested, moves>>
    /\ UNCHANGED nonStreamVars

\* state.update(dt): the camera may move before the next frame
FrameUpdate ==
    /\ frame_pc = "published"
    /\ \/ /\ moves < MaxMoves
          /\ \E p \in ViewerPositions \ {position} : position' = p
          /\ moves' = moves + 1
       \/ UNCHANGED <<position, moves>>
    /\ drained' = {}
    /\ prior_resident' = {}
    /\ prior_requested' = {}
    /\ frame_pc' = "idle"
    /\ UNCHANGED <<generatorVars, radius, ResidentChunks, RequestedChunks,
                   raw_buffer_data, world_chunks, requested_chunks>>
    /\ UNCHANGED nonStreamVars

Next ==
    \/ TickSnapshot
    \/ LoadChunksOk
    \/ LoadChunksPanic
    \/ TickPublish
    \/ FrameDrain
    \/ FramePlan
    \/ FramePublish
    \/ FrameUpdate

Spec == Init /\ [][Next]_vars

(* ------------- the handlers of run.rs with the generator's history ----- *)
\* world_compute.load_chunks(...) returns, every readback having succeeded; the
\* keys it called gen_chunk for are recorded
LoadChunksRecorded ==
    /\ bg_pc = "generate"
    /\ compute_chunks' = LoadedChunks(compute_chunks, temp_requested_chunks)
    /\ bg_pc' = "publish"
    /\ entry_chunks' = compute_chunks
    /\ tick_generated' = Missing(compute_chunks, temp_requested_chunks)
    /\ generated_since_request' =
          generated_since_request \cup
              (Missing(compute_chunks, temp_requested_chunks) \cap DOMAIN RequestedChunks)
    /\ UNCHANGED <<consumerVars, world_chunks, requested_chunks, temp_requested_chunks, failed>>
    /\ UNCHANGED <<worldVars, mutexVars, readbackVars, rayVars, pending_raw>>

\* state.world.load_chunks(camera position); a key that enters RequestedChunks
\* starts with no generation, a key that leaves it is forgotten
FramePlanRecorded ==
    /\ frame_pc = "drained"
    /\ PlannerPass
    /\ prior_resident' = DOMAIN ResidentChunks
    /\ prior_requested' = DOMAIN RequestedChunks
    /\ frame_pc' = "planned"
    /\ generated_since_request' =
          (generated_since_request \cap DOMAIN RequestedChunks) \cap DOMAIN RequestedChunks'
    /\ UNCHANGED <<generatorVars, position, radius, world_chunks,
                   requested_chunks, drained, moves>>
    /\ UNCHANGED <<worldVars, mutexVars, readbackVars, rayVars, tick_generated,
                   entry_chunks, pending_raw>>

\* mutant: the drained entries are added to the pending ones
FrameDrainRecorded_KeepPending ==
    /\ frame_pc = "idle"
    /\ IF DOMAIN world_chunks # {}
          THEN /\ raw_buffer_data' = Extend(raw_buffer_data, world_chunks)
               /\ world_chunks' = EmptyMap
          ELSE UNCHANGED <<raw_buffer_data, world_chunks>>
    /\ drained' = DOMAIN world_chunks
    /\ frame_pc' = "drained"
    /\ pending_raw' = raw_buffer_data
    /\ UNCHANGED <<generatorVars, position, radius, ResidentChunks, RequestedChunks,
                   requested_chunks, prior_resident, prior_requested, moves>>
    /\ UNCHANGED <<worldVars, mutexVars, readbackVars, rayVars, tick_generated,
                   entry_chunks, generated_since_request>>

\* drain of the staging map under its mutex; the raw chunk data that was
\* pending when the frame began is recorded
FrameDrainRecorded ==
    /\ frame_pc = "idle"
    /\ IF DOMAIN world_chunks # {}
          THEN /\ raw_buffer_data' = world_chunks
               /\ world_chunks' = EmptyMap
          ELSE UNCHANGED <<raw_buffer_data, world_chunks>>
    /\ drained' = DOMAIN world_chunks
    /\ frame_pc' = "drained"
    /\ pending_raw' = raw_buffer_data
    /\ UNCHANGED <<generatorVars, position, radius, ResidentChunks, RequestedChunks,
                   requested_chunks, prior_resident, prior_requested, moves>>
    /\ UNCHANGED <<worldVars, mutexVars, readbackVars, rayVars, tick_generated,
                   entry_chunks, generated_since_request>>

RecordedNext ==
    \/ TickSnapshot
    \/ LoadChunksRecorded
    \/ TickPublish
    \/ FrameDrainRecorded
    \/ FramePlanRecorded
    \/ FramePublish
    \/ FrameUpdate

RecordedSpec == Init /\ [][RecordedNext]_vars

(* ----------------- the planner on its own, larger radii ---------------- *)
PlanRadii == (1..PlanMaxRadius) \cup {ScenarioRadius}

\* the window of an earlier viewer position, fully generated and ingested
LoadedRaw(p0, r) ==
    LET entries == WindowEntries(p0, r)
    IN  [k \in { e[1] : e \in entries } |-> GenChunk((CHOOSE e \in entries : e[1] = k)[2])]

LoadedResident(p0, r) ==
    LET loaded == LoadedRaw(p0, r)
    IN  [k \in DOMAIN loaded |-> Ingest(loaded[k])]

\* a frame is about to start, either on the empty state of startup or after
\* the viewer left a position whose window had been loaded completely
InitPlan ==
    /\ position \in PlanPositions \cup {ScenarioOrigin}
    /\ radius \in PlanRadii
    /\ \/ /\ ResidentChunks = EmptyMap
          /\ raw_buffer_data = EmptyMap
       \/ \E p0 \in PlanPositions \ {position} :
             /\ ResidentChunks = LoadedResident(p0, radius)
             /\ raw_buffer_data = LoadedRaw(p0, radius)
    /\ RequestedChunks = EmptyMap
    /\ world_chunks = EmptyMap
    /\ requested_chunks = EmptyMap
    /\ temp_requested_chunks = EmptyMap
    /\ compute_chunks = EmptyMap
    /\ bg_pc = "sleep"
    /\ frame_pc = "idle"
    /\ failed = {}
    /\ drained = {}
    /\ prior_resident = {}
    /\ prior_requested = {}
    /\ moves = MaxMoves
    /\ WorldNew
    /\ MutexNew
    /\ ReadbackIdle
    /\ RayIntersectPipelineNew
    /\ HistoryNew

PlanNext ==
    \/ FrameDrain
    \/ FramePlan
    \/ FramePublish
    \/ FrameUpdate

PlanSpec == InitPlan /\ [][PlanNext]_vars

(* ------------- the handlers of run.rs, one Mutex guard at a time ------- *)
\* requested_chunks.lock() of the background task returns its guard
TickLockRequested ==
    /\ bg_pc = "sleep"
    /\ requested_chunks_lock = "free"
    /\ requested_chunks_lock' = "background"
    /\ bg_pc' = "snapshot_locked"
    /\ UNCHANGED <<consumerVars, world_chunks, requested_chunks, temp_requested_chunks,
                   compute_chunks, failed, worldVars, readbackVars, rayVars, historyVars, world_chunks_lock>>

\* mutant: the guard of the snapshot outlives the if-let and is still held
\* when load_chunks runs
TickSnapshotLocked_KeepGuard ==
    /\ bg_pc = "snapshot_locked"
    /\ temp_requested_chunks' = requested_chunks
    /\ bg_pc' = "generate"
    /\ UNCHANGED <<consumerVars, world_chunks, requested_chunks, compute_chunks, failed,
                   worldVars, readbackVars, rayVars, historyVars, mutexVars>>

\* temp_requested_chunks = x.clone(); the guard is dropped at the end of the
\* if-let, before load_chunks is called
TickSnapshotLocked ==
    /\ bg_pc = "snapshot_locked"
    /\ temp_requested_chunks' = requested_chunks
    /\ requested_chunks_lock' = "free"
    /\ bg_pc' = "generate"
    /\ UNCHANGED <<consumerVars, world_chunks, requested_chunks, compute_chunks, failed,
                   worldVars, readbackVars, rayVars, historyVars, world_chunks_lock>>

\* world_chunks_shared.lock() of the background task returns its guard
TickLockWorldChunks ==
    /\ bg_pc = "publish"
    /\ world_chunks_lock = "free"
    /\ world_chunks_lock' = "background"
    /\ bg_pc' = "publish_locked"
    /\ UNCHANGED <<consumerVars, world_chunks, requested_chunks, temp_requested_chunks,
                   compute_chunks, failed, worldVars, readbackVars, rayVars, historyVars, requested_chunks_lock>>

\* x.extend(world_compute.chunks.clone()); the guard is dropped
TickPublishLocked ==
    /\ bg_pc = "publish_locked"
    /\ world_chunks' = Extend(world_chunks, compute_chunks)
    /\ world_chunks_lock' = "free"
    /\ bg_pc' = "sleep"
    /\ UNCHANGED <<consumerVars, requested_chunks, temp_requested_chunks, compute_chunks,
                   failed, worldVars, readbackVars, rayVars, historyVars, requested_chunks_lock>>

\* world_chunks.lock() of the RedrawRequested handler returns its guard
FrameLockWorldChunks ==
    /\ frame_pc = "idle"
    /\ world_chunks_lock = "free"
    /\ world_chunks_lock' = "consumer"
    /\ frame_pc' = "drain_locked"
    /\ UNCHANGED <<generatorVars, position, radius, ResidentChunks, RequestedChunks,
                   raw_buffer_data, world_chunks, requested_chunks, drained,
                   prior_resident, prior_requested, moves, worldVars, readbackVars, rayVars, historyVars,
                   requested_chunks_lock>>

\* mutant: the staged entries are cloned and stay in the staging map
FrameDrainLocked_CloneOnly ==
    /\ frame_pc = "drain_locked"
    /\ IF DOMAIN world_chunks # {}
          THEN /\ raw_buffer_data' = world_chunks
               /\ world_chunks' = world_chunks
          ELSE UNCHANGED <<raw_buffer_data, world_chunks>>
    /\ drained' = DOMAIN world_chunks
    /\ world_chunks_lock' = "free"
    /\ frame_pc' = "drained"
    /\ UNCHANGED <<generatorVars, position, radius, ResidentChunks, RequestedChunks,
                   requested_chunks, prior_resident, prior_requested, moves,
                   worldVars, readbackVars, rayVars, historyVars, requested_chunks_lock>>

\* the drain under the guard; the guard is dropped
FrameDrainLocked ==
    /\ frame_pc = "drain_locked"
    /\ IF DOMAIN world_chunks # {}
          THEN /\ raw_buffer_data' = world_chunks
               /\ world_chunks' = EmptyMap
          ELSE UNCHANGED <<raw_buffer_data, world_chunks>>
    /\ drained' = DOMAIN world_chunks
    /\ world_chunks_lock' = "free"
    /\ frame_pc' = "drained"
    /\ UNCHANGED <<generatorVars, position, radius, ResidentChunks, RequestedChunks,
                   requested_chunks, prior_resident, prior_requested, moves,
                   worldVars, readbackVars, rayVars, historyVars, requested_chunks_lock>>

\* requested_chunks_shared.lock() of the RedrawRequested handler returns its guard
FrameLockRequested ==
    /\ frame_pc = "planned"
    /\ requested_chunks_lock = "free"
    /\ requested_chunks_lock' = "consumer"
    /\ frame_pc' = "publish_locked"
    /\ UNCHANGED <<generatorVars, position, radius, ResidentChunks, RequestedChunks,
                   raw_buffer_data, world_chunks, requested_chunks, drained,
                   prior_resident, prior_requested, moves, worldVars, readbackVars, rayVars, historyVars,
                   world_chunks_lock>>

\* mutant: the guard of the publish is not dropped and is still held when the
\* next frame locks the staging map
FramePublishLocked_KeepGuard ==
    /\ frame_pc = "publish_locked"
    /\ requested_chunks' = RequestedChunks
    /\ frame_pc' = "published"
    /\ UNCHANGED <<generatorVars, position, radius, ResidentChunks, RequestedChunks,
                   raw_buffer_data, world_chunks, drained, prior_resident,
                   prior_requested, moves, worldVars, readbackVars, rayVars, historyVars, mutexVars>>

\* *x = state.world.requested_chunks.clone(); the guard is dropped
FramePublishLocked ==
    /\ frame_pc = "publish_locked"
    /\ requested_chunks' = RequestedChunks
    /\ requested_chunks_lock' = "free"
    /\ frame_pc' = "published"
    /\ UNCHANGED <<generatorVars, position, radius, ResidentChunks, RequestedChunks,
                   raw_buffer_data, world_chunks, drained, prior_resident,
                   prior_requested, moves, worldVars, readbackVars, rayVars, historyVars, world_chunks_lock>>

MutexNext ==
    \/ TickLockRequested
    \/ TickSnapshotLocked
    \/ LoadChunksOk
    \/ LoadChunksPanic
    \/ TickLockWorldChunks
    \/ TickPublishLocked
    \/ FrameLockWorldChunks
    \/ FrameDrainLocked
    \/ FramePlan
    \/ FrameLockRequested
    \/ FramePublishLocked
    \/ FrameUpdate

MutexSpec == Init /\ [][MutexNext]_vars

\* the steps of the background task, and those of the RedrawRequested handler
MutexBackground ==
    \/ TickLockRequested
    \/ TickSnapshotLocked
    \/ LoadChunksOk
    \/ LoadChunksPanic
    \/ TickLockWorldChunks
    \/ TickPublishLocked

MutexFrame ==
    \/ FrameLockWorldChunks
    \/ FrameDrainLocked
    \/ FramePlan
    \/ FrameLockRequested
    \/ FramePublishLocked
    \/ FrameUpdate

\* the state of Init, the camera having made all but one of its moves
MutexLiveInit ==
    /\ position \in ViewerPositions
    /\ radius = Radius
    /\ moves = MaxMoves - 1
    /\ ResidentChunks = EmptyMap
    /\ RequestedChunks = EmptyMap
    /\ raw_buffer_data = EmptyMap
    /\ world_chunks = EmptyMap
    /\ requested_chunks = EmptyMap
    /\ temp_requested_chunks = EmptyMap
    /\ compute_chunks = EmptyMap
    /\ bg_pc = "sleep"
    /\ frame_pc = "idle"
    /\ failed = {}
    /\ drained = {}
    /\ prior_resident = {}
    /\ prior_requested = {}
    /\ WorldNew
    /\ MutexNew
    /\ ReadbackIdle
    /\ RayIntersectPipelineNew
    /\ HistoryNew

\* both threads keep running; a thread blocked in lock() is woken when the
\* guard is dropped, and the other thread does not take the mutex again before
\* its next frame or its 500 ms sleep, so a lock() that is possible again and
\* again is eventually taken
MutexLiveSpec ==
    /\ MutexLiveInit
    /\ [][MutexNext]_vars
    /\ SF_vars(MutexBackground)
    /\ SF_vars(MutexFrame)

(* ------------- load_chunks, one queue or device call at a time -------- *)
\* what ComputeWorld::load_chunks neither reads nor writes, besides its argument
outsideLoadChunks == <<consumerVars, world_chunks, requested_chunks,
                       temp_requested_chunks, worldVars, mutexVars, rayVars>>

\* a map with one entry
Single(k, v) == [x \in {k} |-> v]

\* a map without one of its keys: HashMap::remove
Without(m, k) == [x \in (DOMAIN m) \ {k} |-> m[x]]

\* load_chunks is entered: new_chunks is empty and the loop has every key of
\* anchor_coords before it
LoadChunksEnter ==
    /\ bg_pc = "generate"
    /\ gen_pc = "idle"
    /\ todo' = DOMAIN temp_requested_chunks
    /\ new_chunks' = EmptyMap
    /\ gen_pc' = "loop"
    /\ entry_chunks' = compute_chunks
    /\ tick_generated' = {}
    /\ UNCHANGED <<outsideLoadChunks, generated_since_request, pending_raw, sizes,
                   compute_chunks, bg_pc, failed, gen_key, mesh,
                   vertex_staging_buffer, index_staging_buffer, vertex_data,
                   index_data, submitted, signal>>

\* the chunk exists: it is removed from self.chunks and inserted into new_chunks
LoopCarryForward ==
    /\ bg_pc = "generate"
    /\ gen_pc = "loop"
    /\ \E k \in todo \cap DOMAIN compute_chunks :
          /\ new_chunks' = Extend(new_chunks, Single(k, compute_chunks[k]))
          /\ compute_chunks' = Without(compute_chunks, k)
          /\ todo' = todo \ {k}
    /\ UNCHANGED <<outsideLoadChunks, historyVars, sizes, bg_pc, failed, gen_pc, gen_key, mesh,
                   vertex_staging_buffer, index_staging_buffer, vertex_data,
                   index_data, submitted, signal>>

\* the chunk does not exist: gen_chunk dispatches the compute pass, submits it
\* and polls; the two staging buffers are created
LoopGenChunk ==
    /\ bg_pc = "generate"
    /\ gen_pc = "loop"
    /\ \E k \in todo \ DOMAIN compute_chunks :
          /\ gen_key' = k
          /\ todo' = todo \ {k}
          /\ tick_generated' = tick_generated \cup {k}
          /\ generated_since_request' =
                generated_since_request \cup ({k} \cap DOMAIN RequestedChunks)
          /\ mesh' = [vertex_buffer |-> GenChunk(temp_requested_chunks[k]).vertex_data,
                      index_buffer |-> GenChunk(temp_requested_chunks[k]).index_data]
    /\ vertex_staging_buffer' = NewStagingBuffer
    /\ index_staging_buffer' = NewStagingBuffer
    /\ vertex_data' = Zeroed
    /\ index_data' = Zeroed
    /\ submitted' = <<"dispatch">>
    /\ signal' = "none"
    /\ gen_pc' = "chunk_generated"
    /\ sizes' = [mesh_vertex_buffer |-> GenVertexBufferSize,
                 mesh_index_buffer |-> GenIndexBufferSize,
                 num_elements |-> GenNumElements,
                 vertex_staging_buffer |-> VertexStagingSize,
                 index_staging_buffer |-> IndexStagingSize,
                 vertex_copy |-> 0, index_copy |-> 0,
                 vertex_data |-> VertexDataLen, index_data |-> IndexDataLen,
                 workgroups |-> <<DispatchWorkgroupsX, 1, 1>>]
    /\ UNCHANGED <<outsideLoadChunks, entry_chunks, pending_raw, compute_chunks, bg_pc, failed,
                   new_chunks>>

\* copy_buffer_to_buffer(vertex_buffer -> vertex_staging_buffer); queue.submit
VertexCopySubmit ==
    /\ bg_pc = "generate"
    /\ gen_pc = "chunk_generated"
    /\ submitted' = Append(submitted, "copy_vertex")
    /\ gen_pc' = "vertex_submitted"
    /\ sizes' = [sizes EXCEPT !.vertex_copy = num_vertices * 8 * SizeOfF32]
    /\ UNCHANGED <<outsideLoadChunks, historyVars, compute_chunks, bg_pc, failed, todo, gen_key,
                   new_chunks, mesh, vertex_staging_buffer, index_staging_buffer,
                   vertex_data, index_data, signal>>

\* buffer_slice.map_async(Read, ..) on the vertex staging buffer
VertexMapAsync ==
    /\ bg_pc = "generate"
    /\ gen_pc = "vertex_submitted"
    /\ vertex_staging_buffer' = [vertex_staging_buffer EXCEPT !.mapping = "pending"]
    /\ gen_pc' = "vertex_map_requested"
    /\ UNCHANGED <<outsideLoadChunks, historyVars, sizes, compute_chunks, bg_pc, failed, todo, gen_key,
                   new_chunks, mesh, index_staging_buffer, vertex_data, index_data,
                   submitted, signal>>

\* mutant: device.poll(Maintain::Poll) returns without waiting for the mapping
VertexPoll_NoWait ==
    /\ bg_pc = "generate"
    /\ gen_pc = "vertex_map_requested"
    /\ gen_pc' = "vertex_polled"
    /\ UNCHANGED <<outsideLoadChunks, historyVars, sizes, compute_chunks, bg_pc, failed, todo, gen_key,
                   new_chunks, mesh, vertex_staging_buffer, index_staging_buffer,
                   vertex_data, index_data, submitted, signal>>

\* device.poll(Maintain::Wait): the submitted copy has run, and the mapping
\* either succeeds or fails; the callback sends the outcome
VertexPoll ==
    /\ bg_pc = "generate"
    /\ gen_pc = "vertex_map_requested"
    /\ \/ /\ vertex_staging_buffer' = [mapping |-> "mapped", bytes |-> mesh.vertex_buffer]
          /\ signal' = "ok"
       \/ /\ vertex_staging_buffer' = [mapping |-> "unmapped", bytes |-> mesh.vertex_buffer]
          /\ signal' = "err"
    /\ gen_pc' = "vertex_polled"
    /\ UNCHANGED <<outsideLoadChunks, historyVars, sizes, compute_chunks, bg_pc, failed, todo, gen_key,
                   new_chunks, mesh, index_staging_buffer, vertex_data, index_data,
                   submitted>>

\* receiver.receive().await yields Some(Ok(())): the mapped range is copied
\* into vertex_data
VertexReceiveOk ==
    /\ bg_pc = "generate"
    /\ gen_pc = "vertex_polled"
    /\ signal = "ok"
    /\ vertex_data' = vertex_staging_buffer.bytes
    /\ signal' = "none"
    /\ gen_pc' = "vertex_copied"
    /\ UNCHANGED <<outsideLoadChunks, historyVars, sizes, compute_chunks, bg_pc, failed, todo, gen_key,
                   new_chunks, mesh, vertex_staging_buffer, index_staging_buffer,
                   index_data, submitted>>

\* drop(data); vertex_staging_buffer.unmap()
VertexUnmap ==
    /\ bg_pc = "generate"
    /\ gen_pc = "vertex_copied"
    /\ vertex_staging_buffer' = [vertex_staging_buffer EXCEPT !.mapping = "unmapped"]
    /\ gen_pc' = "vertex_unmapped"
    /\ UNCHANGED <<outsideLoadChunks, historyVars, sizes, compute_chunks, bg_pc, failed, todo, gen_key,
                   new_chunks, mesh, index_staging_buffer, vertex_data, index_data,
                   submitted, signal>>

\* mutant: a failed vertex readback is skipped over and the iteration goes on
\* with the buffer it initialised
VertexReceiveFail_Continue ==
    /\ bg_pc = "generate"
    /\ gen_pc = "vertex_polled"
    /\ signal = "err"
    /\ signal' = "none"
    /\ gen_pc' = "vertex_unmapped"
    /\ UNCHANGED <<outsideLoadChunks, historyVars, sizes, compute_chunks, bg_pc, failed, todo, gen_key,
                   new_chunks, mesh, vertex_staging_buffer, index_staging_buffer,
                   vertex_data, index_data, submitted>>

\* panic!("failed to ingest vertex data!")
VertexReceiveFail ==
    /\ bg_pc = "generate"
    /\ gen_pc = "vertex_polled"
    /\ signal = "err"
    /\ failed' = {gen_key}
    /\ compute_chunks' = EmptyMap
    /\ bg_pc' = "panicked"
    /\ UNCHANGED <<outsideLoadChunks, historyVars, readbackVars>>

\* mutant: the index copy is submitted once the vertex bytes are copied, while
\* the vertex staging buffer is still mapped
IndexCopySubmit_BeforeUnmap ==
    /\ bg_pc = "generate"
    /\ gen_pc = "vertex_copied"
    /\ submitted' = Append(submitted, "copy_index")
    /\ gen_pc' = "index_submitted"
    /\ sizes' = [sizes EXCEPT !.index_copy = num_indices * 6 * SizeOfU32]
    /\ UNCHANGED <<outsideLoadChunks, historyVars, compute_chunks, bg_pc, failed, todo, gen_key,
                   new_chunks, mesh, vertex_staging_buffer, index_staging_buffer,
                   vertex_data, index_data, signal>>

\* copy_buffer_to_buffer(index_buffer -> index_staging_buffer); queue.submit
IndexCopySubmit ==
    /\ bg_pc = "generate"
    /\ gen_pc = "vertex_unmapped"
    /\ submitted' = Append(submitted, "copy_index")
    /\ gen_pc' = "index_submitted"
    /\ sizes' = [sizes EXCEPT !.index_copy = num_indices * 6 * SizeOfU32]
    /\ UNCHANGED <<outsideLoadChunks, historyVars, compute_chunks, bg_pc, failed, todo, gen_key,
                   new_chunks, mesh, vertex_staging_buffer, index_staging_buffer,
                   vertex_data, index_data, signal>>

\* buffer_slice.map_async(Read, ..) on the index staging buffer
IndexMapAsync ==
    /\ bg_pc = "generate"
    /\ gen_pc = "index_submitted"
    /\ index_staging_buffer' = [index_staging_buffer EXCEPT !.mapping = "pending"]
    /\ gen_pc' = "index_map_requested"
    /\ UNCHANGED <<outsideLoadChunks, historyVars, sizes, compute_chunks, bg_pc, failed, todo, gen_key,
                   new_chunks, mesh, vertex_staging_buffer, vertex_data, index_data,
                   submitted, signal>>

\* device.poll(Maintain::Wait) for the index mapping
IndexPoll ==
    /\ bg_pc = "generate"
    /\ gen_pc = "index_map_requested"
    /\ \/ /\ index_staging_buffer' = [mapping |-> "mapped", bytes |-> mesh.index_buffer]
          /\ signal' = "ok"
       \/ /\ index_staging_buffer' = [mapping |-> "unmapped", bytes |-> mesh.index_buffer]
          /\ signal' = "err"
    /\ gen_pc' = "index_polled"
    /\ UNCHANGED <<outsideLoadChunks, historyVars, sizes, compute_chunks, bg_pc, failed, todo, gen_key,
                   new_chunks, mesh, vertex_staging_buffer, vertex_data, index_data,
                   submitted>>

\* receiver.receive().await yields Some(Ok(())): the mapped range is copied
\* into index_data
IndexReceiveOk ==
    /\ bg_pc = "generate"
    /\ gen_pc = "index_polled"
    /\ signal = "ok"
    /\ index_data' = index_staging_buffer.bytes
    /\ signal' = "none"
    /\ gen_pc' = "index_copied"
    /\ UNCHANGED <<outsideLoadChunks, historyVars, sizes, compute_chunks, bg_pc, failed, todo, gen_key,
                   new_chunks, mesh, vertex_staging_buffer, index_staging_buffer,
                   vertex_data, submitted>>

\* drop(data); index_staging_buffer.unmap()
IndexUnmap ==
    /\ bg_pc = "generate"
    /\ gen_pc = "index_copied"
    /\ index_staging_buffer' = [index_staging_buffer EXCEPT !.mapping = "unmapped"]
    /\ gen_pc' = "index_unmapped"
    /\ UNCHANGED <<outsideLoadChunks, historyVars, sizes, compute_chunks, bg_pc, failed, todo, gen_key,
                   new_chunks, mesh, vertex_staging_buffer, vertex_data, index_data,
                   submitted, signal>>

\* panic!("failed to ingest index data!")
IndexReceiveFail ==
    /\ bg_pc = "generate"
    /\ gen_pc = "index_polled"
    /\ signal = "err"
    /\ failed' = {gen_key}
    /\ compute_chunks' = EmptyMap
    /\ bg_pc' = "panicked"
    /\ UNCHANGED <<outsideLoadChunks, historyVars, readbackVars>>

\* new_chunks.insert(chunk_key, RawBufferData { vertex_data, index_data }); the
\* locals of the iteration go out of scope
InsertChunk ==
    /\ bg_pc = "generate"
    /\ gen_pc = "index_unmapped"
    /\ new_chunks' = Extend(new_chunks,
                            Single(gen_key, [vertex_data |-> vertex_data,
                                             index_data |-> index_data]))
    /\ gen_key' = <<>>
    /\ mesh' = <<>>
    /\ vertex_staging_buffer' = NewStagingBuffer
    /\ index_staging_buffer' = NewStagingBuffer
    /\ vertex_data' = Zeroed
    /\ index_data' = Zeroed
    /\ submitted' = <<>>
    /\ gen_pc' = "loop"
    /\ sizes' = NoSizes
    /\ UNCHANGED <<outsideLoadChunks, historyVars, compute_chunks, bg_pc, failed, todo, signal>>

\* mutant: the new map is merged into self.chunks, whose entries that were not
\* requested stay
LoadChunksReturn_Extend ==
    /\ bg_pc = "generate"
    /\ gen_pc = "loop"
    /\ todo = {}
    /\ compute_chunks' = Extend(compute_chunks, new_chunks)
    /\ new_chunks' = EmptyMap
    /\ gen_pc' = "idle"
    /\ bg_pc' = "publish"
    /\ UNCHANGED <<outsideLoadChunks, historyVars, sizes, failed, todo, gen_key, mesh,
                   vertex_staging_buffer, index_staging_buffer, vertex_data,
                   index_data, submitted, signal>>

\* the loop is over: self.chunks = new_chunks, and load_chunks returns
LoadChunksReturn ==
    /\ bg_pc = "generate"
    /\ gen_pc = "loop"
    /\ todo = {}
    /\ compute_chunks' = new_chunks
    /\ new_chunks' = EmptyMap
    /\ gen_pc' = "idle"
    /\ bg_pc' = "publish"
    /\ UNCHANGED <<outsideLoadChunks, historyVars, sizes, failed, todo, gen_key, mesh,
                   vertex_staging_buffer, index_staging_buffer, vertex_data,
                   index_data, submitted, signal>>

\* snapshots of at most MaxBatch requests
ReadbackRequests ==
    { [k \in { key_of(a) : a \in S } |-> CHOOSE a \in S : key_of(a) = k] :
        S \in { T \in SUBSET ReadbackAnchors : T # {} /\ Cardinality(T) <= MaxBatch } }

\* the generator cache: empty, or one chunk of an earlier tick
ReadbackCaches ==
    {EmptyMap} \cup { Single(key_of(a), GenChunk(a)) : a \in ReadbackAnchors }

\* the handler has published requests and the background task is asleep
ReadbackInit ==
    /\ position = ScenarioOrigin
    /\ radius = Radius
    /\ moves = 0
    /\ ResidentChunks = EmptyMap
    /\ RequestedChunks = EmptyMap
    /\ raw_buffer_data = EmptyMap
    /\ world_chunks = EmptyMap
    /\ requested_chunks \in ReadbackRequests
    /\ temp_requested_chunks = EmptyMap
    /\ compute_chunks \in ReadbackCaches
    /\ bg_pc = "sleep"
    /\ frame_pc = "published"
    /\ failed = {}
    /\ drained = {}
    /\ prior_resident = {}
    /\ prior_requested = {}
    /\ WorldNew
    /\ MutexNew
    /\ ReadbackIdle
    /\ RayIntersectPipelineNew
    /\ HistoryNew

ReadbackNext ==
    \/ TickSnapshot
    \/ LoadChunksEnter
    \/ LoopCarryForward
    \/ LoopGenChunk
    \/ VertexCopySubmit
    \/ VertexMapAsync
    \/ VertexPoll
    \/ VertexReceiveOk
    \/ VertexUnmap
    \/ VertexReceiveFail
    \/ IndexCopySubmit
    \/ IndexMapAsync
    \/ IndexPoll
    \/ IndexReceiveOk
    \/ IndexUnmap
    \/ IndexReceiveFail
    \/ InsertChunk
    \/ LoadChunksReturn
    \/ TickPublish

ReadbackSpec == ReadbackInit /\ [][ReadbackNext]_vars

\* load_chunks one device call at a time, beside a frame of the handler up to
\* its drain of the staging map
StagingNext ==
    \/ ReadbackNext
    \/ FrameUpdate
    \/ FrameDrain

StagingSpec == ReadbackInit /\ [][StagingNext]_vars

(* --------- ray_intersect, one queue or device call at a time ---------- *)
\* what RayIntersectPipeline::ray_intersect neither reads nor writes
outsideRayIntersect == <<streamVars, worldVars, mutexVars, readbackVars, historyVars>>

\* the chunk geometry a caller passes to a query
RayArguments == { GenChunk(a) : a \in RayAnchors }

\* mutant: ray_intersect takes &self, so a call is entered while another call
\* on the same pipeline has not returned
RayWriteBuffers_SharedRef(c, data) ==
    /\ ray_pc[c] = "idle"
    /\ \A d \in RayCallers : ray_pc[d] # "panicked"
    /\ raw_buffer_arg' = [raw_buffer_arg EXCEPT ![c] = data]
    /\ query_vertex_buffer' = data.vertex_data
    /\ query_index_buffer' = data.index_data
    /\ ray_pc' = [ray_pc EXCEPT ![c] = "written"]
    /\ UNCHANGED <<outsideRayIntersect, result_buffer, staging_buffer, ray_signal,
                   ray_returned>>

\* ray_intersect(&mut self, .., raw_buffer_data) is entered, which the exclusive
\* borrow allows only while no other call on the pipeline is running;
\* queue.write_buffer puts the vertex and index bytes into the query buffers
RayWriteBuffers(c, data) ==
    /\ \A d \in RayCallers : ray_pc[d] = "idle"
    /\ raw_buffer_arg' = [raw_buffer_arg EXCEPT ![c] = data]
    /\ query_vertex_buffer' = data.vertex_data
    /\ query_index_buffer' = data.index_data
    /\ ray_pc' = [ray_pc EXCEPT ![c] = "written"]
    /\ UNCHANGED <<outsideRayIntersect, result_buffer, staging_buffer, ray_signal,
                   ray_returned>>

\* dispatch_workgroups(1, 1, 1); queue.submit: the pass reads the query buffers
RayDispatchSubmit(c) ==
    /\ ray_pc[c] = "written"
    /\ result_buffer' = RayScalar(query_vertex_buffer, query_index_buffer)
    /\ ray_pc' = [ray_pc EXCEPT ![c] = "dispatched"]
    /\ UNCHANGED <<outsideRayIntersect, raw_buffer_arg, query_vertex_buffer,
                   query_index_buffer, staging_buffer, ray_signal, ray_returned>>

\* copy_buffer_to_buffer(result_buffer -> staging_buffer); queue.submit
RayCopySubmit(c) ==
    /\ ray_pc[c] = "dispatched"
    /\ staging_buffer' = [staging_buffer EXCEPT !.bytes = result_buffer]
    /\ ray_pc' = [ray_pc EXCEPT ![c] = "copy_submitted"]
    /\ UNCHANGED <<outsideRayIntersect, raw_buffer_arg, query_vertex_buffer,
                   query_index_buffer, result_buffer, ray_signal, ray_returned>>

\* buffer_slice.map_async(Read, ..) on the staging buffer
RayMapAsync(c) ==
    /\ ray_pc[c] = "copy_submitted"
    /\ staging_buffer' = [staging_buffer EXCEPT !.mapping = "pending"]
    /\ ray_pc' = [ray_pc EXCEPT ![c] = "map_requested"]
    /\ UNCHANGED <<outsideRayIntersect, raw_buffer_arg, query_vertex_buffer,
                   query_index_buffer, result_buffer, ray_signal, ray_returned>>

\* mutant: device.poll(Maintain::Poll) returns without waiting for the mapping
RayPoll_NoWait(c) ==
    /\ ray_pc[c] = "map_requested"
    /\ ray_pc' = [ray_pc EXCEPT ![c] = "polled"]
    /\ UNCHANGED <<outsideRayIntersect, raw_buffer_arg, query_vertex_buffer,
                   query_index_buffer, result_buffer, staging_buffer, ray_signal,
                   ray_returned>>

\* device.poll(Maintain::Wait): the mapping succeeds or fails, and the callback
\* sends the outcome
RayPoll(c) ==
    /\ ray_pc[c] = "map_requested"
    /\ \/ /\ staging_buffer' = [staging_buffer EXCEPT !.mapping = "mapped"]
          /\ ray_signal' = "ok"
       \/ /\ staging_buffer' = [staging_buffer EXCEPT !.mapping = "unmapped"]
          /\ ray_signal' = "err"
    /\ ray_pc' = [ray_pc EXCEPT ![c] = "polled"]
    /\ UNCHANGED <<outsideRayIntersect, raw_buffer_arg, query_vertex_buffer,
                   query_index_buffer, result_buffer, ray_returned>>

\* receiver.receive().await yields Some(Ok(())): the mapped range is read, the
\* buffer is unmapped and result[0] is returned
RayReceiveOk(c) ==
    /\ ray_pc[c] = "polled"
    /\ ray_signal = "ok"
    /\ ray_returned' = [ray_returned EXCEPT ![c] = [raw_buffer_data |-> raw_buffer_arg[c],
                                                     result |-> staging_buffer.bytes]]
    /\ staging_buffer' = [staging_buffer EXCEPT !.mapping = "unmapped"]
    /\ ray_signal' = "none"
    /\ raw_buffer_arg' = [raw_buffer_arg EXCEPT ![c] = <<>>]
    /\ ray_pc' = [ray_pc EXCEPT ![c] = "idle"]
    /\ UNCHANGED <<outsideRayIntersect, query_vertex_buffer, query_index_buffer,
                   result_buffer>>

\* panic!("failed to run compute on gpu!")
RayReceiveFail(c) ==
    /\ ray_pc[c] = "polled"
    /\ ray_signal = "err"
    /\ ray_pc' = [ray_pc EXCEPT ![c] = "panicked"]
    /\ UNCHANGED <<outsideRayIntersect, raw_buffer_arg, query_vertex_buffer,
                   query_index_buffer, result_buffer, staging_buffer, ray_signal,
                   ray_returned>>

\* the steps of a call of ray_intersect after it was entered
RayIntersectProgress ==
    \E c \in RayCallers :
        \/ RayDispatchSubmit(c)
        \/ RayCopySubmit(c)
        \/ RayMapAsync(c)
        \/ RayPoll(c)
        \/ RayReceiveOk(c)
        \/ RayReceiveFail(c)

\* the steps of load_chunks after the snapshot was taken
LoadChunksProgress ==
    \/ LoadChunksEnter
    \/ LoopCarryForward
    \/ LoopGenChunk
    \/ VertexCopySubmit
    \/ VertexMapAsync
    \/ VertexPoll
    \/ VertexReceiveOk
    \/ VertexUnmap
    \/ VertexReceiveFail
    \/ IndexCopySubmit
    \/ IndexMapAsync
    \/ IndexPoll
    \/ IndexReceiveOk
    \/ IndexUnmap
    \/ IndexReceiveFail
    \/ InsertChunk
    \/ LoadChunksReturn

\* the snapshot the background task works on while queries run
ProtocolRequests ==
    { [k \in { key_of(a) : a \in S } |-> CHOOSE a \in S : key_of(a) = k] :
        S \in { RayAnchors, {<<0, -32>>} } }

ProtocolInit ==
    /\ ReadbackInit
    /\ requested_chunks \in ProtocolRequests
    /\ compute_chunks \in {EmptyMap, Single(key_of(<<0, 0>>), GenChunk(<<0, 0>>))}

ProtocolNext ==
    \/ TickSnapshot
    \/ LoadChunksProgress
    \/ TickPublish
    \/ \E c \in RayCallers : \E data \in RayArguments : RayWriteBuffers(c, data)
    \/ RayIntersectProgress

\* both contexts are scheduled: a call that can take its next step takes it
ProtocolSpec ==
    /\ ProtocolInit
    /\ [][ProtocolNext]_vars
    /\ WF_vars(LoadChunksProgress)
    /\ WF_vars(RayIntersectProgress)

(* ---------------------- World::get_chunk on its own -------------------- *)
GetChunkInit ==
    /\ Init
    /\ position = ScenarioOrigin

GetChunkNext == \E pos \in GetChunkPositions : get_chunk(pos)

GetChunkSpec == GetChunkInit /\ [][GetChunkNext]_vars

(* ------------------------------ fairness ------------------------------ *)
\* the background loop while no readback fails: it sleeps and ticks forever
BackgroundTick == TickSnapshot \/ LoadChunksOk \/ TickPublish

\* the event loop polls and redraws forever
ConsumerFrame == FrameDrain \/ FramePlan \/ FramePublish \/ FrameUpdate

NoFailNext == BackgroundTick \/ ConsumerFrame

LiveSpec ==
    /\ Init
    /\ [][NoFailNext]_vars
    /\ WF_vars(BackgroundTick)
    /\ WF_vars(ConsumerFrame)

TypeOK ==
    /\ bg_pc \in {"sleep", "snapshot_locked", "generate", "publish", "publish_locked",
                 "panicked"}
    /\ frame_pc \in {"idle", "drain_locked", "drained", "planned", "publish_locked",
                    "published"}
    /\ world_chunks_lock \in {"free", "background", "consumer"}
    /\ requested_chunks_lock \in {"free", "background", "consumer"}
    /\ moves \in 0..MaxMoves
    /\ Cardinality(failed) <= 1

(* ------------------------------ claims -------------------------------- *)
\* the planner has run in the current frame
AfterPlanner == frame_pc \in {"planned", "published"}

\* C1: at the end of a consumer frame (drain, planner pass, publish) no chunk
\* key is both requested and resident
C1_RequestedResidentDisjoint ==
    frame_pc = "published" =>
        (DOMAIN RequestedChunks) \cap (DOMAIN ResidentChunks) = {}

C1_Witness ==
    /\ frame_pc = "published"
    /\ DOMAIN ResidentChunks # {}
    /\ DOMAIN RequestedChunks # {}
    /\ bg_pc = "generate"

\* C2: a key becomes resident only along the hand-off: a key resident after a
\* step was resident before it or is ingested from an entry this frame drained
\* from the staging map; a new raw entry was in the staging map, a new staging
\* entry was in the generator cache, and that cache holds only generated chunks
C2_ResidentOnlyViaStaging ==
    [][ /\ \A k \in DOMAIN ResidentChunks' :
             \/ k \in DOMAIN ResidentChunks /\ ResidentChunks'[k] = ResidentChunks[k]
             \/ /\ k \in drained \cap DOMAIN raw_buffer_data
                /\ ResidentChunks'[k] = Ingest(raw_buffer_data[k])
        /\ \A k \in DOMAIN raw_buffer_data' :
             \/ k \in DOMAIN raw_buffer_data /\ raw_buffer_data'[k] = raw_buffer_data[k]
             \/ k \in DOMAIN world_chunks /\ raw_buffer_data'[k] = world_chunks[k]
        /\ \A k \in DOMAIN world_chunks' :
             \/ k \in DOMAIN world_chunks /\ world_chunks'[k] = world_chunks[k]
             \/ k \in DOMAIN compute_chunks /\ world_chunks'[k] = compute_chunks[k]
        /\ \A k \in DOMAIN compute_chunks' :
             \/ k \in DOMAIN compute_chunks /\ compute_chunks'[k] = compute_chunks[k]
             \/ k \in DOMAIN temp_requested_chunks
                  /\ compute_chunks'[k] = GenChunk(temp_requested_chunks[k]) ]_vars

C2_Witness ==
    /\ frame_pc = "planned"
    /\ \E k \in DOMAIN ResidentChunks : k \notin prior_resident /\ k \in drained
    /\ \E k \in DOMAIN ResidentChunks : k \in prior_resident

\* C3: with a viewer that stops moving, both loops running and no readback
\* failure, the requests of the window are eventually all served: the window
\* is resident and RequestedChunks is empty from some point on
C3_RequestsEventuallyServed ==
    <>[](/\ DOMAIN RequestedChunks = {}
         /\ WindowKeys(position, radius) \subseteq DOMAIN ResidentChunks)

C3_Witness ==
    /\ frame_pc = "published"
    /\ moves = MaxMoves
    /\ prior_requested # {}
    /\ DOMAIN RequestedChunks = {}
    /\ WindowKeys(position, radius) \subseteq DOMAIN ResidentChunks

\* C4: when the readback of one key of a tick's snapshot fails, the other keys
\* of the snapshot are still generated in that tick and reach the staging map
\* (or, drained from it, the consumer)
C4_OthersStillStaged ==
    bg_pc = "panicked" =>
        (DOMAIN temp_requested_chunks) \ failed \subseteq
            (DOMAIN world_chunks) \cup (DOMAIN raw_buffer_data) \cup (DOMAIN ResidentChunks)

\* C5: a readback failure does not terminate the background loop
C5_LoopSurvivesFailure ==
    failed # {} => bg_pc # "panicked"

\* C6: a window key that the staging map held when the frame started is
\* resident and no longer requested after the frame's planner pass
C6_StagedWindowKeyBecomesResident ==
    AfterPlanner =>
        \A k \in drained \cap WindowKeys(position, radius) :
            /\ k \in DOMAIN ResidentChunks
            /\ k \notin DOMAIN RequestedChunks

C6_Witness ==
    /\ frame_pc = "published"
    /\ \E k \in drained \cap WindowKeys(position, radius) :
          /\ k \notin prior_resident
          /\ k \in prior_requested
          /\ k \in DOMAIN ResidentChunks

\* C7: a drained chunk whose key is outside the window is ignored: it is not
\* resident and not requested while the key stays outside the window
C7_StaleArrivalIgnored ==
    AfterPlanner =>
        \A k \in drained \ WindowKeys(position, radius) :
            /\ k \notin DOMAIN ResidentChunks
            /\ k \notin DOMAIN RequestedChunks

C7_Witness ==
    /\ frame_pc = "published"
    /\ \E k \in drained : k \notin WindowKeys(position, radius)

\* C8: after a planner pass every resident key lies inside the current window
C8_ResidentInsideWindow ==
    AfterPlanner =>
        LET inside == { key_of(<<SnapCorner(position)[1] + o[1] * ChunkEdge,
                                 SnapCorner(position)[2] + o[2] * ChunkEdge>>) :
                            o \in { d \in (-radius..radius) \X (-radius..radius) :
                                        d[1] * d[1] + d[2] * d[2] <= radius * radius + 1 } }
        IN  \A k \in DOMAIN ResidentChunks : k \in inside

C8_Witness ==
    /\ frame_pc = "planned"
    /\ DOMAIN ResidentChunks # {}
    /\ \E k \in prior_resident : k \notin DOMAIN ResidentChunks

\* C9: after a planner pass every requested key lies inside the current window
C9_RequestedInsideWindow ==
    AfterPlanner =>
        LET inside == { <<key_of(a), a>> : a \in WindowAnchors(position, radius) }
        IN  \A k \in DOMAIN RequestedChunks : <<k, RequestedChunks[k]>> \in inside

C9_Witness ==
    /\ frame_pc = "planned"
    /\ DOMAIN RequestedChunks # {}
    /\ \E k \in prior_requested :
          /\ k \notin DOMAIN RequestedChunks
          /\ k \notin DOMAIN ResidentChunks

\* the window by direct enumeration of the inequality
DiskOffsets(r) ==
    { o \in (-r..r) \X (-r..r) : o[1] * o[1] + o[2] * o[2] <= r * r + 1 }

\* C10: after a planner pass the resident and requested keys together are
\* exactly the keys of the offsets with i*i + z*z <= r*r + 1 around the snapped
\* corner; from the empty state the requested keys are that set, as many as
\* the inequality has solutions
C10_WindowIsExactlyTheDisk ==
    AfterPlanner =>
        /\ (DOMAIN ResidentChunks) \cup (DOMAIN RequestedChunks) =
              { key_of(<<SnapCorner(position)[1] + o[1] * ChunkEdge,
                         SnapCorner(position)[2] + o[2] * ChunkEdge>>) :
                  o \in DiskOffsets(radius) }
        /\ (prior_resident = {} /\ drained = {}) =>
              /\ DOMAIN ResidentChunks = {}
              /\ Cardinality(DOMAIN RequestedChunks) = Cardinality(DiskOffsets(radius))

C10_Witness ==
    /\ frame_pc = "planned"
    /\ radius = ScenarioRadius
    /\ position = ScenarioOrigin
    /\ ChunkEdge = 32
    /\ prior_resident = {}
    /\ DOMAIN raw_buffer_data = {}
    /\ Cardinality(DOMAIN RequestedChunks) = Cardinality(DiskOffsets(ScenarioRadius))
    /\ <<"3", "2", "0", "_", "-", "3", "2">> \in DOMAIN RequestedChunks

\* C11: the planner is idempotent: run again on the state a pass left behind,
\* with the same viewer position and nothing drained in between, it yields the
\* same ResidentChunks and the same RequestedChunks
C11_PlannerIdempotent ==
    AfterPlanner =>
        /\ NewResident(position, radius, ResidentChunks, raw_buffer_data) = ResidentChunks
        /\ NewRequested(position, radius, ResidentChunks, raw_buffer_data,
                        RequestedChunks) = RequestedChunks
        /\ NewRaw(position, radius, raw_buffer_data) = raw_buffer_data

\* a second pass has run with nothing drained and left both maps as they were
C11_Witness ==
    /\ frame_pc = "planned"
    /\ drained = {}
    /\ prior_resident = DOMAIN ResidentChunks
    /\ prior_requested = DOMAIN RequestedChunks
    /\ prior_resident # {}
    /\ prior_requested # {}

\* positions around a viewer position: the corner of its chunk, the far end of
\* the chunk, and the neighbours one unit away
NearbyPositions(pos) ==
    { <<(pos[1] \div ChunkEdge) * ChunkEdge + d[1],
        (pos[2] \div ChunkEdge) * ChunkEdge + d[2]>> :
          d \in {0, ChunkEdge - 1} \X {0, ChunkEdge - 1} }
    \cup { <<pos[1] + 1, pos[2]>>, <<pos[1] - 1, pos[2]>>,
           <<pos[1], pos[2] + 1>>, <<pos[1], pos[2] - 1>> }

KeptOffsets ==
    { o \in (-radius..radius) \X (-radius..radius) :
        key_of(<<SnapCorner(position)[1] + o[1] * ChunkEdge,
                 SnapCorner(position)[2] + o[2] * ChunkEdge>>)
            \in (DOMAIN ResidentChunks) \cup (DOMAIN RequestedChunks) }

\* C15: the disk test answers the same for (i, z), (-i, z), (i, -z) and the
\* quarter turn (-z, i), for all i, z in [-r, r]; so the offsets whose chunks a
\* planner pass keeps or requests are closed under those flips and turns
C15_DiskTestSymmetric ==
    /\ \A i \in -radius..radius, z \in -radius..radius :
          /\ DiskTest(i, z, radius) = DiskTest(-i, z, radius)
          /\ DiskTest(i, z, radius) = DiskTest(i, -z, radius)
          /\ DiskTest(i, z, radius) = DiskTest(-z, i, radius)
    /\ AfterPlanner =>
          \A o \in KeptOffsets :
              /\ <<-o[1], o[2]>> \in KeptOffsets
              /\ <<o[1], -o[2]>> \in KeptOffsets
              /\ <<-o[2], o[1]>> \in KeptOffsets

\* a pass has run with a radius at which the ring has offsets outside the disk
C15_Witness ==
    /\ frame_pc = "planned"
    /\ \E i \in -radius..radius, z \in -radius..radius : ~DiskTest(i, z, radius)
    /\ <<1, radius - 1>> \in KeptOffsets
    /\ position # SnapCorner(position)

\* C16: the staging map and the requested snapshot are read and written only by
\* the holder of their guard, a guard is held only for the copy, merge or swap
\* it protects, and the background task holds no guard while load_chunks
\* generates and reads back, so a frame never waits for a generation
C16_NoGuardAcrossGeneration ==
    [][ /\ bg_pc' \in {"generate", "publish", "sleep", "panicked"} =>
              /\ world_chunks_lock' # "background"
              /\ requested_chunks_lock' # "background"
        /\ frame_pc' \in {"idle", "drained", "planned", "published"} =>
              /\ world_chunks_lock' # "consumer"
              /\ requested_chunks_lock' # "consumer"
        /\ world_chunks' # world_chunks => world_chunks_lock # "free"
        /\ requested_chunks' # requested_chunks => requested_chunks_lock = "consumer"
        /\ temp_requested_chunks' # temp_requested_chunks =>
              requested_chunks_lock = "background"
        /\ raw_buffer_data' # raw_buffer_data /\ frame_pc = "drain_locked" =>
              world_chunks_lock = "consumer"
        /\ (bg_pc = "generate" /\ frame_pc \in {"idle", "planned"}) =>
              (ENABLED FrameLockWorldChunks \/ ENABLED FrameLockRequested) ]_vars

\* the background task is generating missing chunks while the handler holds
\* the guard of the staging map with entries to drain
C16_Witness ==
    /\ bg_pc = "generate"
    /\ Missing(compute_chunks, temp_requested_chunks) # {}
    /\ frame_pc = "drain_locked"
    /\ world_chunks_lock = "consumer"
    /\ DOMAIN world_chunks # {}

\* C17: a publish of the background task merges into the staging map: every
\* entry staged before it is still staged after it, with the same bytes unless
\* the publish carries the same key
C17_PublishMerges ==
    [][ (bg_pc = "publish" /\ bg_pc' = "sleep") =>
          /\ \A k \in DOMAIN world_chunks :
                /\ k \in DOMAIN world_chunks'
                /\ k \notin DOMAIN compute_chunks => world_chunks'[k] = world_chunks[k]
          /\ \A k \in DOMAIN compute_chunks :
                /\ k \in DOMAIN world_chunks'
                /\ world_chunks'[k] = compute_chunks[k] ]_vars

\* after a publish the staging map holds an entry of an earlier tick next to
\* the entries of the last one
C17_Witness ==
    /\ bg_pc = "sleep"
    /\ \E k \in DOMAIN world_chunks : k \notin DOMAIN compute_chunks
    /\ \E k \in DOMAIN world_chunks : k \in DOMAIN compute_chunks

\* C18: the drain is atomic and total: it moves every staged entry to the
\* consumer and leaves the staging map empty; an entry leaves the staging map
\* only that way; a publish never overlaps a drain, and lands whole
C18_DrainAtomicAndTotal ==
    [][ /\ (frame_pc = "drain_locked" /\ frame_pc' = "drained") =>
              /\ DOMAIN world_chunks' = {}
              /\ \A k \in DOMAIN world_chunks :
                    k \in DOMAIN raw_buffer_data' /\ raw_buffer_data'[k] = world_chunks[k]
        /\ \A k \in (DOMAIN world_chunks) \ (DOMAIN world_chunks') :
              k \in DOMAIN raw_buffer_data' /\ raw_buffer_data'[k] = world_chunks[k]
        /\ (bg_pc = "publish_locked" /\ bg_pc' = "sleep") =>
              \A k \in DOMAIN compute_chunks :
                  k \in DOMAIN world_chunks' /\ world_chunks'[k] = compute_chunks[k]
        /\ ~(bg_pc' = "publish_locked" /\ frame_pc' = "drain_locked") ]_vars

\* a publish is waiting for the guard while the handler is about to drain a
\* non-empty staging map
C18_Witness ==
    /\ frame_pc = "drain_locked"
    /\ bg_pc = "publish"
    /\ DOMAIN world_chunks # {}
    /\ DOMAIN compute_chunks # {}

\* C19: the snapshot of a tick is the map the handler published last (empty
\* before the first frame): the handler's RequestedChunks once it has
\* published, the requests of the frame before while it has not; the snapshot
\* is a copy, so a publish during the tick does not change it and is seen by
\* the snapshot of the next tick
C19_SnapshotIsLastPublished ==
    [][ /\ (bg_pc = "sleep" /\ bg_pc' = "generate") =>
              /\ frame_pc # "planned" => temp_requested_chunks' = RequestedChunks
              /\ frame_pc = "planned" =>
                    /\ DOMAIN temp_requested_chunks' = prior_requested
                    /\ \A k \in prior_requested :
                          key_of(temp_requested_chunks'[k]) = k
        /\ bg_pc # "sleep" => temp_requested_chunks' = temp_requested_chunks
        /\ (bg_pc = "generate" /\ bg_pc' = "publish") =>
              DOMAIN compute_chunks' = DOMAIN temp_requested_chunks ]_vars

\* a frame has published other requests while the tick works on its snapshot
C19_Witness ==
    /\ bg_pc = "generate"
    /\ frame_pc = "published"
    /\ DOMAIN temp_requested_chunks # {}
    /\ DOMAIN requested_chunks # {}
    /\ temp_requested_chunks # requested_chunks

\* the index copy command is among the commands submitted for the chunk
IndexCopySubmitted == \E i \in 1..Len(submitted) : submitted[i] = "copy_index"

\* C20: within the generation of one chunk the index copy is submitted only
\* after the vertex bytes are in the owned buffer and the vertex staging buffer
\* is unmapped, and each staging buffer is unmapped only after its bytes have
\* been copied out
C20_VertexReadbackBeforeIndexCopy ==
    [][ /\ IndexCopySubmitted' =>
              /\ vertex_data' = mesh'.vertex_buffer
              /\ vertex_staging_buffer'.mapping = "unmapped"
        /\ (~IndexCopySubmitted /\ IndexCopySubmitted') =>
              /\ vertex_data = mesh.vertex_buffer
              /\ vertex_staging_buffer.mapping = "unmapped"
              /\ submitted = <<"dispatch", "copy_vertex">>
        /\ (vertex_staging_buffer.mapping = "mapped"
                /\ vertex_staging_buffer'.mapping = "unmapped") =>
              vertex_data = vertex_staging_buffer.bytes /\ vertex_data # Zeroed
        /\ (index_staging_buffer.mapping = "mapped"
                /\ index_staging_buffer'.mapping = "unmapped") =>
              index_data = index_staging_buffer.bytes /\ index_data # Zeroed ]_vars

\* both readbacks of a chunk are done, in a call that generates a second chunk
C20_Witness ==
    /\ gen_pc = "index_unmapped"
    /\ IndexCopySubmitted
    /\ vertex_data = mesh.vertex_buffer
    /\ index_data = mesh.index_buffer
    /\ DOMAIN new_chunks # {}

\* World::get_chunk has returned at least once
GetChunkCalled == chunk_key # <<>>

\* C13: the corner get_chunk computes is, per axis, the floor division of the
\* position by the chunk edge times the edge, so corner <= p < corner + edge,
\* for negative coordinates too
C13_CornerIsFloorOfPosition ==
    GetChunkCalled =>
        \A axis \in {1, 2} :
            LET p == F32Value(get_chunk_position[axis])
                corner == F32Value(<<x_coord, z_coord>>[axis])
            IN  /\ corner = (p \div CHUNKSIZE) * CHUNKSIZE
                /\ corner <= p
                /\ p < corner + CHUNKSIZE

\* C14: the key get_chunk builds is the two signed decimals of the corner
\* joined by an underscore, parsing it gives the corner back, and two corners
\* have the same key only if they are equal
C14_KeyIsUnderscorePairAndRoundTrips ==
    GetChunkCalled =>
        /\ chunk_key = IntToStr(F32Value(x_coord)) \o <<"_">> \o IntToStr(F32Value(z_coord))
        /\ ParseKey(chunk_key) = <<F32Value(x_coord), F32Value(z_coord)>>
        /\ chunks[chunk_key] = <<x_coord, z_coord>>
        /\ \A k1, k2 \in DOMAIN chunks : chunks[k1] = chunks[k2] => k1 = k2

\* C21, as stated: in every readback (chunk vertex data, chunk index data, ray
\* query result) the context drives the device's polling only after the
\* completion signal of the mapping it registered has arrived
C21_SuspendThenPoll ==
    [][ /\ (VertexPoll \/ IndexPoll) => signal # "none"
        /\ \A c \in RayCallers : RayPoll(c) => ray_signal # "none" ]_vars

\* C21, amended: in every readback the context drives the device's polling
\* right after registering the mapping, before any completion signal has
\* arrived, and the signal has arrived whenever the context is at the await
C21_PollThenSuspend ==
    /\ gen_pc \in {"vertex_map_requested", "index_map_requested"} => signal = "none"
    /\ gen_pc \in {"vertex_polled", "index_polled"} => signal \in {"ok", "err"}
    /\ \A c \in RayCallers :
          /\ ray_pc[c] = "map_requested" => ray_signal = "none"
          /\ ray_pc[c] = "polled" => ray_signal \in {"ok", "err"}

C21_Witness ==
    /\ gen_pc = "index_polled"
    /\ signal = "ok"
    /\ vertex_data # Zeroed
    /\ \E c \in RayCallers : ray_pc[c] = "polled" /\ ray_signal = "ok"

\* C22: the readback protocol never deadlocks: once a chunk has been dispatched
\* its generation reaches the insertion into new_chunks, and once a ray query
\* has written its buffers it returns, unless the device reports that the
\* mapping failed
C22_ReadbackTerminates ==
    /\ (gen_pc = "chunk_generated") ~> (gen_pc = "loop" \/ signal = "err")
    /\ \A c \in RayCallers :
          (ray_pc[c] = "written") ~> (ray_pc[c] = "idle" \/ ray_signal = "err")

C22_Witness ==
    /\ bg_pc = "publish"
    /\ key_of(<<0, -32>>) \in DOMAIN compute_chunks
    /\ \A c \in RayCallers : ray_returned[c] # <<>> /\ ray_pc[c] = "idle"

\* C23: a ray query whose buffer mapping fails hands its caller a failure
\* result: it does not end the calling thread, and it returns no zeroed scalar
C23_MappingFailureIsReturned ==
    \A c \in RayCallers :
        /\ ray_pc[c] # "panicked"
        /\ ray_returned[c] # <<>> => ray_returned[c].result # Zeroed

\* C24: at most one query is in flight on the pipeline, the query buffers hold
\* the bytes of the call in flight from its write until its return, and the
\* scalar a call returns is the one computed from the chunk data passed to it
C24_OneQueryInFlight ==
    /\ Cardinality({ c \in RayCallers : ray_pc[c] # "idle" }) <= 1
    /\ \A c \in RayCallers :
          /\ ray_pc[c] \in {"written", "dispatched", "copy_submitted", "map_requested",
                             "polled"} =>
                /\ query_vertex_buffer = raw_buffer_arg[c].vertex_data
                /\ query_index_buffer = raw_buffer_arg[c].index_data
          /\ ray_returned[c] # <<>> =>
                ray_returned[c].result = RayScalar(ray_returned[c].raw_buffer_data.vertex_data,
                                                   ray_returned[c].raw_buffer_data.index_data)

C24_Witness ==
    /\ ray_returned["first"] # <<>>
    /\ ray_returned["second"] # <<>>
    /\ ray_returned["first"].result # ray_returned["second"].result
    /\ ray_pc["first"] = "polled"
    /\ raw_buffer_arg["first"] # ray_returned["first"].raw_buffer_data

\* C25: for chunk resolution N the mesh has (N+1)^2 vertices and N^2*6 indices,
\* and while a chunk is read back the mesh buffers of gen_chunk, the staging
\* buffers and copy lengths of load_chunks and the arrays of RawBufferData all
\* have (N+1)^2*8*4 bytes for vertices and N^2*6*4 bytes for indices, which is
\* 34848 and 24576 for N = 32
C25_ByteSizesAgree ==
    gen_pc \notin {"idle", "loop"} =>
        LET N == chunk_size[1]
            vertex_bytes == (N + 1) * (N + 1) * 8 * 4
            index_bytes == N * N * 6 * 4
        IN  /\ chunk_size = <<N, N>>
            /\ N = 32 => vertex_bytes = 34848 /\ index_bytes = 24576
            /\ GenNumVertices = (N + 1) * (N + 1)
            /\ sizes.num_elements = N * N * 6
            /\ sizes.mesh_vertex_buffer = vertex_bytes
            /\ sizes.vertex_staging_buffer = vertex_bytes
            /\ sizes.vertex_data = vertex_bytes
            /\ sizes.mesh_index_buffer = index_bytes
            /\ sizes.index_staging_buffer = index_bytes
            /\ sizes.index_data = index_bytes
            /\ sizes.vertex_copy \in {0, vertex_bytes}
            /\ sizes.index_copy \in {0, index_bytes}
            /\ IndexCopySubmitted =>
                  sizes.vertex_copy = vertex_bytes /\ sizes.index_copy = index_bytes

C25_Witness ==
    /\ gen_pc = "index_copied"
    /\ sizes.vertex_copy = 34848
    /\ sizes.index_copy = 24576
    /\ vertex_data # Zeroed
    /\ index_data # Zeroed

\* a coordinate with -0.0 replaced by 0.0
PositiveZero(f) == IF f = NegZero THEN F32(0) ELSE f

\* C26: negative zero and positive zero give the same key: the key derived for
\* a position is the key derived for the position whose -0.0 components are
\* replaced by 0.0
C26_NegativeZeroSameKey ==
    GetChunkCalled =>
        LET x == PositiveZero(get_chunk_position[1])
            z == PositiveZero(get_chunk_position[2])
        IN  chunk_key = GetChunkKey(NormalizeZero(TruncToChunk(x)),
                                    NormalizeZero(TruncToChunk(z)))

C26_Witness ==
    /\ get_chunk_position = <<NegZero, F32(5)>>
    /\ chunk_key = <<"0", ",", "0">>

\* C27: what a tick publishes into the staging map are the chunks generated
\* during that tick; a chunk carried forward in the generator's cache is not
\* published again
C27_OnlyNewlyGeneratedPublished ==
    [][TickPublish =>
          \A k \in DOMAIN world_chunks' :
              \/ k \in tick_generated
              \/ k \in DOMAIN world_chunks /\ world_chunks'[k] = world_chunks[k]]_vars

\* C28: generation is triggered only by absence: no key is generated while it
\* is resident, and no key is generated a second time while it has stayed in
\* RequestedChunks since it was requested
C28_GeneratedAtMostOnce ==
    [][LoadChunksRecorded =>
          \A k \in Missing(compute_chunks, temp_requested_chunks) :
              /\ k \notin DOMAIN ResidentChunks
              /\ k \in DOMAIN RequestedChunks => k \notin generated_since_request]_vars

\* C30: after a successful call of load_chunks the cache has exactly the keys of
\* the snapshot: a requested key that was cached keeps its bytes and gen_chunk
\* did not run for it, a requested key that was not cached holds the chunk
\* generated at its anchor, and a cached key that is not requested is gone
C30_CacheKeysAreSnapshotKeys ==
    bg_pc = "publish" =>
        /\ DOMAIN compute_chunks = DOMAIN temp_requested_chunks
        /\ \A k \in DOMAIN compute_chunks :
              IF k \in DOMAIN entry_chunks
                  THEN compute_chunks[k] = entry_chunks[k] /\ k \notin tick_generated
                  ELSE compute_chunks[k] = GenChunk(temp_requested_chunks[k])
                       /\ k \in tick_generated
        /\ tick_generated \subseteq DOMAIN temp_requested_chunks

C30_Witness ==
    /\ bg_pc = "publish"
    /\ gen_pc = "idle"
    /\ \E k \in DOMAIN compute_chunks : k \in DOMAIN entry_chunks
    /\ \E k \in DOMAIN compute_chunks : k \in tick_generated

\* C29: after a planner pass the anchor of every entry of RequestedChunks is the
\* corner its key encodes, no two entries stand for the same corner, and an
\* entry the pass found already requested is left as it was
C29_AnchorIsKeyCorner ==
    [][FramePlan =>
          /\ \A k \in DOMAIN RequestedChunks' : ParseKey(k) = RequestedChunks'[k]
          /\ Cardinality({ RequestedChunks'[k] : k \in DOMAIN RequestedChunks' })
                = Cardinality(DOMAIN RequestedChunks')
          /\ \A k \in (DOMAIN RequestedChunks) \cap (DOMAIN RequestedChunks') :
                RequestedChunks'[k] = RequestedChunks[k]]_vars

C29_Witness ==
    /\ frame_pc = "planned"
    /\ \E k \in prior_requested \cap DOMAIN RequestedChunks :
          /\ RequestedChunks[k][1] < 0
          /\ RequestedChunks[k][2] > 0
          /\ RequestedChunks[k] # SnapCorner(position)

\* C34: the dispatch of gen_chunk has ceil((N+1)^2 / 64) workgroups in x and 1
\* in y and z: the 64 invocations of each group together cover all (N+1)^2
\* vertices and one group less would not, which is 18 groups for N = 32
C34_DispatchCoversVertices ==
    gen_pc \notin {"idle", "loop"} =>
        LET N == chunk_size[1]
            groups == sizes.workgroups[1]
        IN  /\ chunk_size = <<N, N>>
            /\ sizes.workgroups = <<groups, 1, 1>>
            /\ groups * 64 >= (N + 1) * (N + 1)
            /\ (groups - 1) * 64 < (N + 1) * (N + 1)
            /\ N = 32 => groups = 18

C34_Witness ==
    /\ gen_pc = "chunk_generated"
    /\ submitted = <<"dispatch">>
    /\ sizes.workgroups = <<18, 1, 1>>

\* C33: a frame that finds the staging map empty leaves the pending raw chunk
\* data as it was; a frame that finds it non-empty leaves exactly the drained
\* entries pending, whatever was pending before being discarded
C33_DrainReplacesPendingRaw ==
    [][(frame_pc = "idle" /\ frame_pc' = "drained") =>
          IF DOMAIN world_chunks = {}
              THEN raw_buffer_data' = raw_buffer_data
              ELSE /\ DOMAIN raw_buffer_data' = DOMAIN world_chunks
                   /\ \A k \in DOMAIN world_chunks : raw_buffer_data'[k] = world_chunks[k]
                   /\ world_chunks' = EmptyMap]_vars

\* a non-empty drain has discarded an entry that was pending before it
C33_Witness ==
    /\ frame_pc = "drained"
    /\ drained # {}
    /\ DOMAIN raw_buffer_data = drained
    /\ \E k \in DOMAIN pending_raw : k \notin drained

\* C31: every entry of the map load_chunks builds, of the generator's cache, of
\* the staging map and of the consumer's raw chunk data holds the bytes of both
\* readbacks of its chunk; the zeroed buffer of a readback that failed or has
\* not completed is in none of them
C31_OnlyCompleteReadbacksCached ==
    LET Complete(m) ==
            \A k \in DOMAIN m :
                /\ m[k].vertex_data # Zeroed
                /\ m[k].index_data # Zeroed
                /\ \E a \in ReadbackAnchors : k = key_of(a) /\ m[k] = GenChunk(a)
    IN  /\ Complete(new_chunks)
        /\ Complete(compute_chunks)
        /\ Complete(world_chunks)
        /\ Complete(raw_buffer_data)
        /\ bg_pc = "panicked" =>
               /\ failed # {}
               /\ failed \cap DOMAIN new_chunks = {}
               /\ compute_chunks = EmptyMap

\* the frame has drained a chunk whose two readbacks this run performed
C31_Witness ==
    /\ frame_pc = "drained"
    /\ \E k \in DOMAIN raw_buffer_data :
          /\ k \in tick_generated
          /\ raw_buffer_data[k] = GenChunk(requested_chunks[k])

\* C32: neither the background task nor the handler holds the guards of both
\* mutexes at once, the background task fails only while it holds no guard,
\* and every lock() either of them reaches returns its guard
C32_NoDeadlockBetweenContexts ==
    /\ [](\A c \in {"background", "consumer"} :
             ~(world_chunks_lock = c /\ requested_chunks_lock = c))
    /\ [](bg_pc = "panicked" =>
             world_chunks_lock # "background" /\ requested_chunks_lock # "background")
    /\ (bg_pc = "sleep") ~> (bg_pc = "snapshot_locked" /\ requested_chunks_lock = "background")
    /\ (bg_pc = "publish") ~> (bg_pc = "publish_locked" /\ world_chunks_lock = "background")
    /\ (frame_pc = "idle") ~> (frame_pc = "drain_locked" /\ world_chunks_lock = "consumer")
    /\ (frame_pc = "planned") ~> (frame_pc = "publish_locked" /\ requested_chunks_lock = "consumer")

\* the handler waits for the staging mutex the background task holds, having
\* itself no guard
C32_Witness ==
    /\ frame_pc = "idle"
    /\ world_chunks_lock = "background"
    /\ requested_chunks_lock = "free"
    /\ bg_pc = "publish_locked"


====
